---- MODULE Spec2Model ----
(***************************************************************************)
(* Model of the Spotify ingestion pipeline of 01_EDA_Canciones             *)
(* (scr/scripts/ingest_spotify.py, "current") and of its earlier version   *)
(* (archive/01_EDA_Canciones/src/scripts/ingest_spotify.py, "archive").    *)
(*                                                                         *)
(* One action is the code that runs between two calls of the external      *)
(* Spotify client; the outcome of the call (a response or an exception)    *)
(* is the action's input.  Track ids are positive integers, 0 is a null    *)
(* or empty id, artist ids are positive integers.                          *)
(***************************************************************************)
EXTENDS Integers, Sequences, FiniteSets, TLC

\* ------------------------------------------------------------------ bounds
MaxId == 3           \* ids 1..MaxId occur in playlists, artists and the file
MaxTracks == 3       \* --max_tracks is drawn from 0..MaxTracks
MaxRefs == 3         \* playlist references on the command line
MaxArtists == 1      \* artist names on the command line
MaxPages == 2        \* pages one playlist can have
RetryCap == 7        \* failures injected in a row on one primary batch

\* ------------------------------------------------------- program constants
TRACKS_CHUNK == 50
FEATURES_CHUNK == 100
ARTISTS_CHUNK == 50
max_retries == 5
MAX_WAIT == 60
MAX_TRACKS == 2000
ReduceSizes == <<50, 20, 10, 5, 1>>

Variants == {"current", "archive"}

VARIABLES
    variant,        \* which of the two scripts runs
    pc,             \* position of the run
    max_tracks,     \* args.max_tracks
    refs_left,      \* playlist references still to process (main, for pid in ...)
    artists_left,   \* artist names still to process (main, for aname in ...)
    track_ids,      \* main: track_ids
    tids,           \* get_playlist_track_ids: track_ids (local)
    has_next,       \* get_playlist_track_ids: results.get('next')
    pages,          \* page requests issued for the current reference
    page_items,     \* the items of the pages received for the current reference
    ref_log,        \* what each processed reference returned (printed at line 255)
    truncated,      \* "Truncating to max_tracks" was printed (line 281)
    unique_ids,     \* fetch_tracks_and_features: unique_ids
    batch_i,        \* offset of the current batch in the list being chunked
    retry,          \* primary loop: retry
    calls,          \* sp.tracks calls issued for the current batch
    wait,           \* primary loop: last delay slept for the current batch (0: none)
    records,        \* primary loop: records (their track_id)
    prim_log,       \* how each primary batch settled
    direct_token,   \* archive: direct_token is not None
    stage,          \* secondary step: which attempt comes next
    n_i,            \* archive reduce pass: index in ReduceSizes
    sub_i,          \* offset of the current sub-batch in the batch
    reduced_ok,     \* archive reduce pass: reduced_ok
    attempts,       \* secondary calls issued for the current batch
    features_rows,  \* features_rows (the id of each row, 0 for None)
    answered,       \* bulk runs: the secondary endpoint has answered a call of the batch
    call_log,       \* the secondary calls issued for the current batch
    asked,          \* the ids the secondary endpoint has been asked about
    last_err,       \* how the last secondary call failed ("" when it answered)
    sec_log,        \* how each secondary batch settled
    df,             \* the table being assembled
    artist_list,    \* list(all_artist_ids)
    artist_genres,  \* artist_genres
    gen_log,        \* the positions of the artist chunks that have settled
    raised,         \* the exception that left the program ("" while none)
    artist_ids_str, \* get_primary_genre: the artist ids of the row, in listed order
    genre,          \* get_primary_genre: the value returned ("unset" before the call)
    input_str,      \* extract_playlist_id: the reference string
    resolved,       \* extract_playlist_id: the values returned so far
    array,          \* mask_threshold: the input array, cell after cell
    threshold,      \* mask_threshold: the threshold
    comparison,     \* mask_threshold: the name of the comparison operator
    mask,           \* mask_threshold: the mask returned
    ndvi,           \* calculate_vegetation_metrics: the NDVI array, cell after cell
    thresholds,     \* calculate_vegetation_metrics: <<>> for None, else <<bare, sparse, moderate>>
    metrics         \* calculate_vegetation_metrics: the dictionary returned

mainVars == <<max_tracks, refs_left, artists_left, track_ids, tids, has_next, pages,
              page_items, ref_log, truncated>>
primVars == <<unique_ids, retry, calls, wait, records, prim_log>>
secVars == <<direct_token, stage, n_i, sub_i, reduced_ok, attempts, features_rows,
             answered, call_log, asked, last_err, sec_log>>
genVars == <<df, artist_list, artist_genres, gen_log>>
rasterVars == <<array, threshold, comparison, mask, ndvi, thresholds, metrics>>
pureVars == <<artist_ids_str, genre, input_str, resolved, rasterVars>>
vars == <<variant, pc, raised, batch_i, mainVars, primVars, secVars, genVars, pureVars>>

\* ----------------------------------------------------------------- helpers
Min(a, b) == IF a < b THEN a ELSE b

Range(s) == {s[k] : k \in DOMAIN s}

Ids == 1..MaxId

\* s[a:b] of Python for 0 <= a, 0 <= b
Slice(s, a, b) == SubSeq(s, a + 1, Min(b, Len(s)))

\* [x for x in s if x]
Truthy(s) == SelectSeq(s, LAMBDA x : x # 0)

fromkeysKeepingAll(s, lo, hi) == SubSeq(s, lo, hi)

\* list(dict.fromkeys(s)): the keys of a dict keep their insertion order.
\* s[lo..hi] is inserted key by key: a key already in the dict is not inserted again
RECURSIVE fromkeys(_, _, _)
fromkeys(s, lo, hi) ==
    IF lo > hi THEN <<>>
    ELSE IF lo = hi
         THEN IF \E j \in 1..(lo - 1) : s[j] = s[lo] THEN <<>> ELSE <<s[lo]>>
         ELSE fromkeys(s, lo, (lo + hi) \div 2) \o fromkeys(s, (lo + hi) \div 2 + 1, hi)

chunkedOneMore(s, n, i) == Slice(s, i, i + n + 1)

\* the i-th batch of chunked(s, n) starts at offset i and is s[i:i+n]
chunked(s, n, i) == Slice(s, i, i + n)

\* ---------------------------------------------------- get_playlist_track_ids
\* for item in items: append the id if any; stop once len(track_ids) >= limit
RECURSIVE AccumulatePage(_, _, _)
AccumulatePage(acc, items, limit) ==
    IF items = <<>> THEN acc
    ELSE LET acc2 == IF Head(items) # 0 THEN Append(acc, Head(items)) ELSE acc
         IN  IF Len(acc2) >= limit THEN acc2
             ELSE AccumulatePage(acc2, Tail(items), limit)

\* the pages the listing endpoint can answer with (0: an item without track id)
Pages == {<<>>, <<1, 0, 1>>, <<MaxId, 1>>}

\* the exceptions of the first request: SpotifyException with http_status 404,
\* SpotifyException with another status (403 stands for 401, 403, 429, 500, ...),
\* and any other exception
FirstPageErrors == {"404", "403", "other"}

\* while results.get('next') and len(track_ids) < limit
MorePages(nxt, acc, limit) == nxt /\ Len(acc) < limit

\* main, lines 254-256: tids = get_playlist_track_ids(...); track_ids.extend(tids)
PlaylistReturn(st, ret) ==
    /\ track_ids' = track_ids \o ret
    /\ ref_log' = Append(ref_log, [st |-> st, ids |-> ret])
    /\ refs_left' = refs_left - 1
    /\ tids' = <<>>
    /\ has_next' = FALSE
    /\ pages' = 0
    /\ page_items' = <<>>
    /\ pc' = "playlists"
    /\ raised' = raised

PlaylistFirstPageOk ==
    /\ pc = "playlists" /\ refs_left > 0
    /\ \E items \in Pages, nxt \in BOOLEAN :
         LET acc == AccumulatePage(<<>>, items, max_tracks)
         IN  IF MorePages(nxt, acc, max_tracks)
             THEN /\ tids' = acc
                  /\ has_next' = nxt
                  /\ pages' = 1
                  /\ page_items' = items
                  /\ pc' = "paginate"
                  /\ UNCHANGED <<track_ids, ref_log, refs_left, raised>>
             ELSE PlaylistReturn("ok", acc)
    /\ UNCHANGED <<variant, pureVars, max_tracks, artists_left, truncated, batch_i, primVars,
                   secVars, genVars>>

FirstPageRaisesOn404Too(v, err) == v = "current" /\ err \in {"403", "404"}

\* the except clauses of the first request
FirstPageRaises(v, err) == v = "current" /\ err = "403"

PlaylistFirstPageError ==
    /\ pc = "playlists" /\ refs_left > 0
    /\ \E err \in FirstPageErrors :
         IF FirstPageRaises(variant, err)
         THEN /\ pc' = "raised"
              /\ raised' = err
              /\ UNCHANGED <<track_ids, ref_log, refs_left, tids, has_next, pages,
                             page_items>>
         ELSE PlaylistReturn(err, <<>>)
    /\ UNCHANGED <<variant, pureVars, max_tracks, artists_left, truncated, batch_i, primVars,
                   secVars, genVars>>

AfterBreakDiscarding(acc) == <<>>

\* except Exception: break -- the loop is left and track_ids is returned
AfterBreak(acc) == acc

PlaylistNextPage ==
    /\ pc = "paginate"
    /\ MorePages(has_next, tids, max_tracks)
    /\ \/ \E items \in Pages, nxt \in BOOLEAN :
            LET acc == AccumulatePage(tids, items, max_tracks)
                more == nxt /\ pages + 1 < MaxPages
            IN  IF MorePages(more, acc, max_tracks)
                THEN /\ tids' = acc
                     /\ has_next' = more
                     /\ pages' = pages + 1
                     /\ page_items' = page_items \o items
                     /\ UNCHANGED <<pc, track_ids, ref_log, refs_left, raised>>
                ELSE PlaylistReturn("ok", acc)
       \/ PlaylistReturn("next_failed", AfterBreak(tids))     \* sp.next raises
    /\ UNCHANGED <<variant, pureVars, max_tracks, artists_left, truncated, batch_i, primVars,
                   secVars, genVars>>

PlaylistsDone ==
    /\ pc = "playlists" /\ refs_left = 0
    /\ pc' = "artists"
    /\ UNCHANGED <<variant, pureVars, raised, mainVars, batch_i, primVars, secVars, genVars>>

\* ------------------------------------------- get_artist_top_tracks_by_name
TopTracks == {<<>>, <<1>>, <<MaxId, 1>>}

ArtistTopTracks ==
    /\ pc = "artists" /\ artists_left > 0
    /\ \/ \E top \in TopTracks :         \* not found gives [], like no top track
            /\ track_ids' = track_ids \o top
            /\ artists_left' = artists_left - 1
            /\ UNCHANGED <<pc, raised>>
       \/ /\ pc' = "raised"               \* sp.search or sp.artist_top_tracks raises
          /\ raised' = "Exception"
          /\ UNCHANGED <<track_ids, artists_left>>
    /\ UNCHANGED <<variant, pureVars, max_tracks, refs_left, tids, has_next, pages, page_items,
                   ref_log, truncated, batch_i, primVars, secVars, genVars>>

\* ------------------------------------------------------------ the id file
\* the lines of the file after strip() (0: a blank line)
Files == {<<>>, <<0, 2>>, <<2, MaxId, 2>>}

ReadFile ==
    /\ pc = "artists" /\ artists_left = 0
    /\ \E lines \in Files : track_ids' = track_ids \o Truthy(lines)
    /\ pc' = "dedup"
    /\ UNCHANGED <<variant, pureVars, raised, max_tracks, refs_left, artists_left, tids, has_next,
                   pages, page_items, ref_log, truncated, batch_i, primVars, secVars,
                   genVars>>

\* ---------------------------------------------------- main, lines 275-285
TruncateOneMore(s, m) == IF Len(s) > m THEN Slice(s, 0, m + 1) ELSE s

\* track_ids[:max_tracks] when the list is longer
Truncate(s, m) == IF Len(s) > m THEN Slice(s, 0, m) ELSE s

DedupAndCap ==
    /\ pc = "dedup"
    /\ LET u == fromkeys(Truthy(track_ids), 1, Len(Truthy(track_ids)))
       IN  /\ track_ids' = IF u = <<>> THEN u ELSE Truncate(u, max_tracks)
           /\ pc' = IF u = <<>> THEN "no_ids" ELSE "fetch"
           /\ truncated' = (Len(u) > max_tracks)
    /\ ref_log' = <<>>
    /\ UNCHANGED <<variant, pureVars, raised, max_tracks, refs_left, artists_left, tids, has_next,
                   pages, page_items, batch_i, primVars, secVars, genVars>>

\* ------------------------------------- fetch_tracks_and_features: primary
\* Runs of more than MaxId ids are bulk runs.
Bulk == Len(unique_ids) > MaxId

\* the sets of ids of a batch a response can hold null for (removed content);
\* the responses of a bulk run hold no null
NullChoices(batch) == IF Bulk THEN {{}} ELSE SUBSET Range(batch)

\* [x for x in batch if the response holds a record for x]
Without(batch, nulls) == SelectSeq(batch, LAMBDA x : x \notin nulls)

\* the response as a list: 0 where the entry is null
Nulled(batch, nulls) ==
    [k \in DOMAIN batch |-> IF batch[k] \in nulls THEN 0 ELSE batch[k]]

Exp2(k) == IF k <= 0 THEN 1 ELSE 2 ^ k

BackoffUncapped(r) == Exp2(r)

\* wait = min(60, 2 ** retry)
Backoff(r) == Min(MAX_WAIT, Exp2(r))

GivesUpOneLater(v, r) == v = "current" /\ r > max_retries

\* current: the loop gives up once retry >= max_retries; archive: while True
GivesUp(v, r) == v = "current" /\ r >= max_retries

\* lines 147-151
FetchStart ==
    /\ pc = "fetch"
    /\ LET u == fromkeys(Truthy(track_ids), 1, Len(Truthy(track_ids)))
       IN  /\ unique_ids' = u
           /\ pc' = IF u = <<>> THEN "done" ELSE "primary"
    /\ UNCHANGED <<variant, pureVars, raised, mainVars, batch_i, retry, calls, wait, records,
                   prim_log, secVars, genVars>>

PrimarySettleKeepingRetry(got, skipped) ==
    LET recs == records \o got
        last == batch_i + TRACKS_CHUNK >= Len(unique_ids)
    IN  /\ records' = recs
        /\ prim_log' = Append(prim_log,
               [at |-> batch_i, skipped |-> skipped, got |-> got])
        /\ retry' = retry
        /\ calls' = 0
        /\ wait' = 0
        /\ batch_i' = IF last THEN 0 ELSE batch_i + TRACKS_CHUNK
        /\ pc' = IF ~last THEN "primary"
                 ELSE IF recs = <<>> THEN "done"
                 ELSE IF variant = "archive" THEN "token" ELSE "secondary"
        /\ stage' = IF last /\ recs # <<>> /\ variant = "current" THEN "full" ELSE stage

\* the batch is settled with the records got: on to the next batch, or to the
\* secondary step, or out with an empty table (lines 183-185)
PrimarySettle(got, skipped) ==
    LET recs == records \o got
        last == batch_i + TRACKS_CHUNK >= Len(unique_ids)
    IN  /\ records' = recs
        /\ prim_log' = Append(prim_log,
               [at |-> batch_i, skipped |-> skipped, got |-> got])
        /\ retry' = 0
        /\ calls' = 0
        /\ wait' = 0
        /\ batch_i' = IF last THEN 0 ELSE batch_i + TRACKS_CHUNK
        /\ pc' = IF ~last THEN "primary"
                 ELSE IF recs = <<>> THEN "done"
                 ELSE IF variant = "archive" THEN "token" ELSE "secondary"
        /\ stage' = IF last /\ recs # <<>> /\ variant = "current" THEN "full" ELSE stage

\* sp.tracks(ids_batch) answers
PrimaryCallOk ==
    /\ pc = "primary"
    /\ \E nulls \in NullChoices(chunked(unique_ids, TRACKS_CHUNK, batch_i)) :
         PrimarySettle(Without(chunked(unique_ids, TRACKS_CHUNK, batch_i), nulls), FALSE)
    /\ UNCHANGED <<variant, pureVars, raised, mainVars, unique_ids, direct_token, n_i, sub_i,
                   reduced_ok, attempts, features_rows, answered, call_log, asked,
                   last_err, sec_log, genVars>>

\* sp.tracks(ids_batch) raises
PrimaryCallFails ==
    /\ pc = "primary"
    /\ retry < RetryCap
    /\ IF GivesUp(variant, retry + 1)
       THEN PrimarySettle(<<>>, TRUE)
       ELSE /\ retry' = retry + 1
            /\ calls' = calls + 1
            /\ wait' = Backoff(retry + 1)
            /\ UNCHANGED <<pc, batch_i, records, prim_log, stage>>
    /\ UNCHANGED <<variant, pureVars, raised, mainVars, unique_ids, direct_token, n_i, sub_i,
                   reduced_ok, attempts, features_rows, answered, call_log, asked,
                   last_err, sec_log, genVars>>

PrimaryNext ==
    \/ FetchStart
    \/ PrimaryCallOk
    \/ PrimaryCallFails

\* ----------------------------------- fetch_tracks_and_features: secondary
\* In a bulk run the failures of the secondary endpoint on one batch come
\* first: once it has answered a call of the batch it answers the later ones.
MoodAllows(o) == ~Bulk \/ ~answered \/ o = "ok"

MoodAfter(o) == answered' = (answered \/ (Bulk /\ o = "ok"))

SecBatchOfInput == chunked(unique_ids, FEATURES_CHUNK, batch_i)

\* for ids_batch in chunked(df_meta['track_id'].tolist(), 100)
SecBatch == chunked(records, FEATURES_CHUNK, batch_i)

SecSettleStopping(rows) ==
    /\ features_rows' = features_rows \o rows
    /\ batch_i' = batch_i
    /\ pc' = "join"
    /\ stage' = "full"
    /\ n_i' = 0
    /\ sub_i' = 0
    /\ reduced_ok' = FALSE
    /\ answered' = FALSE

\* the batch is settled with these rows added: on to the next batch or to the join
SecSettle(rows) ==
    LET last == batch_i + FEATURES_CHUNK >= Len(records)
    IN  /\ features_rows' = features_rows \o rows
        /\ batch_i' = IF last THEN batch_i ELSE batch_i + FEATURES_CHUNK
        /\ pc' = IF last THEN "join" ELSE "secondary"
        /\ stage' = "full"
        /\ n_i' = 0
        /\ sub_i' = 0
        /\ reduced_ok' = FALSE
        /\ answered' = FALSE

RetryOn403Always(st) == TRUE

\* the retry_on_403 argument of try_audio_features: True for the call on the
\* whole batch (line 190), False for the calls on single ids (line 195)
RetryOn403(st) == st = "full"

\* the ids the call of this stage is about
CallIds == IF stage \in {"singles", "single_refresh"} THEN <<SecBatch[sub_i + 1]>> ELSE SecBatch

\* how a call of the secondary endpoint can end: it answers, it raises
\* SpotifyException with http_status 403 (a direct request: status 403), or
\* it fails in another way
Failures == {"403", "other"}

\* the call of this stage, with sub-batch size n and the ids it carries, ended with res
Logged(n, ids, res) ==
    /\ call_log' = Append(IF stage = "full" THEN <<>> ELSE call_log,
                          [stage |-> stage, size |-> n, at |-> batch_i + sub_i,
                           n |-> Len(ids), ok |-> res = "ok"])
    /\ asked' = asked \cup Range(ids)
    /\ last_err' = IF res = "ok" THEN "" ELSE res

\* the batch is settled by this step
Settles == pc' = "join" \/ batch_i' # batch_i

\* the record of a settled batch: exhausted when no call for it was answered
Settled ==
    sec_log' = IF Settles
               THEN Append(sec_log,
                      [at |-> batch_i,
                       exhausted |-> \A k \in DOMAIN call_log' : ~call_log'[k].ok])
               ELSE sec_log

\* lines 190-202: try_audio_features has returned for the whole batch (feats,
\* None when failed is true) or for the single id SecBatch[sub_i + 1]
AfterTry(failed, nulls, o) ==
    IF stage \in {"full", "refresh"}
    THEN IF failed
         THEN /\ stage' = "singles"
              /\ MoodAfter(o)
              /\ UNCHANGED <<pc, batch_i, n_i, sub_i, reduced_ok, features_rows>>
         ELSE SecSettle(Without(CallIds, nulls))
    ELSE LET rows == IF failed THEN <<>> ELSE Nulled(CallIds, nulls)
         IN  IF sub_i + 1 >= Len(SecBatch)
             THEN SecSettle(rows)
             ELSE /\ features_rows' = features_rows \o rows
                  /\ sub_i' = sub_i + 1
                  /\ stage' = "singles"
                  /\ MoodAfter(o)
                  /\ UNCHANGED <<pc, batch_i, n_i, reduced_ok>>

\* the sub-batch size of the calls of a stage of the current variant
SizeOf(st) == IF st \in {"singles", "single_refresh"} THEN 1 ELSE FEATURES_CHUNK

\* lines 111-116, 129-145: sp.audio_features(ids_batch) answers, raises
\* SpotifyException with status 403, or raises anything else
try_audio_features ==
    /\ pc = "secondary" /\ variant = "current" /\ stage \in {"full", "singles"}
    /\ attempts' = IF stage = "full" THEN 1 ELSE attempts + 1
    /\ \/ /\ MoodAllows("ok")
          /\ Logged(SizeOf(stage), CallIds, "ok")
          /\ \E nulls \in NullChoices(CallIds) : AfterTry(FALSE, nulls, "ok")
       \/ /\ MoodAllows("fail")
          /\ \E err \in Failures :
               /\ Logged(SizeOf(stage), CallIds, err)
               /\ IF err = "403" /\ RetryOn403(stage)
                  THEN /\ stage' = IF stage = "full" THEN "refresh" ELSE "single_refresh"
                       /\ MoodAfter("fail")
                       /\ UNCHANGED <<pc, batch_i, n_i, sub_i, reduced_ok, features_rows>>
                  ELSE AfterTry(TRUE, {}, "fail")
    /\ Settled
    /\ UNCHANGED <<variant, pureVars, raised, mainVars, primVars, direct_token, genVars>>

\* lines 117-128: sp_new.audio_features(ids_batch) with a fresh client
try_audio_features_refresh ==
    /\ pc = "secondary" /\ variant = "current" /\ stage \in {"refresh", "single_refresh"}
    /\ attempts' = attempts + 1
    /\ \/ /\ MoodAllows("ok")
          /\ Logged(SizeOf(stage), CallIds, "ok")
          /\ \E nulls \in NullChoices(CallIds) : AfterTry(FALSE, nulls, "ok")
       \/ /\ MoodAllows("fail")
          /\ \E err \in Failures : Logged(SizeOf(stage), CallIds, err)
          /\ AfterTry(TRUE, {}, "fail")
    /\ Settled
    /\ UNCHANGED <<variant, pureVars, raised, mainVars, primVars, direct_token, genVars>>

UseDirectAlways(tok) == TRUE

\* archive, lines 189 and 204: if direct_token
UseDirect(tok) == tok

\* archive, lines 176-182: auth_manager.get_access_token answers or raises
get_access_token ==
    /\ pc = "token"
    /\ \E tok \in BOOLEAN : direct_token' = tok
    /\ pc' = "secondary"
    /\ stage' = "full"
    /\ UNCHANGED <<variant, pureVars, raised, batch_i, mainVars, primVars, n_i, sub_i,
                   reduced_ok, attempts, features_rows, answered, call_log, asked,
                   last_err, sec_log, genVars>>

\* archive, lines 195-196: the reduce pass starts at the first size
ReduceStart ==
    /\ stage' = "reduce"
    /\ n_i' = 1
    /\ sub_i' = 0
    /\ reduced_ok' = FALSE
    /\ UNCHANGED <<pc, batch_i, features_rows>>

\* archive, lines 185-193: try_audio_features_spotipy(sp, ids_batch)
try_audio_features_spotipy ==
    /\ pc = "secondary" /\ variant = "archive" /\ stage = "full"
    /\ attempts' = 1
    /\ \/ /\ MoodAllows("ok")
          /\ Logged(FEATURES_CHUNK, SecBatch, "ok")
          /\ \E nulls \in NullChoices(SecBatch) : SecSettle(Without(SecBatch, nulls))
       \/ /\ MoodAllows("fail")
          /\ \E err \in Failures : Logged(FEATURES_CHUNK, SecBatch, err)
          /\ MoodAfter("fail")
          /\ IF UseDirect(direct_token)
             THEN /\ stage' = "direct"
                  /\ UNCHANGED <<pc, batch_i, n_i, sub_i, reduced_ok, features_rows>>
             ELSE ReduceStart
    /\ Settled
    /\ UNCHANGED <<variant, pureVars, raised, mainVars, primVars, direct_token, genVars>>

\* archive, lines 189-193: try_audio_features_direct(direct_token, ids_batch)
try_audio_features_direct ==
    /\ pc = "secondary" /\ variant = "archive" /\ stage = "direct"
    /\ attempts' = attempts + 1
    /\ \/ /\ MoodAllows("ok")
          /\ Logged(FEATURES_CHUNK, SecBatch, "ok")
          /\ \E nulls \in NullChoices(SecBatch) : SecSettle(Nulled(SecBatch, nulls))
       \/ /\ MoodAllows("fail")
          /\ \E err \in Failures : Logged(FEATURES_CHUNK, SecBatch, err)
          /\ MoodAfter("fail")
          /\ ReduceStart
    /\ Settled
    /\ UNCHANGED <<variant, pureVars, raised, mainVars, primVars, direct_token, genVars>>

\* for small_batch in chunked(ids_batch, n)
SmallBatch == chunked(SecBatch, ReduceSizes[n_i], sub_i)

ReduceAdvanceNoBreak(rows, rok, o) ==
    LET lastSub == sub_i + ReduceSizes[n_i] >= Len(SecBatch)
    IN  IF lastSub /\ n_i = Len(ReduceSizes)
        THEN SecSettle(rows)
        ELSE /\ features_rows' = features_rows \o rows
             /\ stage' = "reduce"
             /\ sub_i' = IF lastSub THEN 0 ELSE sub_i + ReduceSizes[n_i]
             /\ n_i' = IF lastSub THEN n_i + 1 ELSE n_i
             /\ reduced_ok' = rok
             /\ MoodAfter(o)
             /\ UNCHANGED <<pc, batch_i>>

ReduceAdvanceBreakAtOnce(rows, rok, o) ==
    LET lastSub == sub_i + ReduceSizes[n_i] >= Len(SecBatch)
    IN  IF rok \/ (lastSub /\ n_i = Len(ReduceSizes))
        THEN SecSettle(rows)
        ELSE /\ features_rows' = features_rows \o rows
             /\ stage' = "reduce"
             /\ sub_i' = IF lastSub THEN 0 ELSE sub_i + ReduceSizes[n_i]
             /\ n_i' = IF lastSub THEN n_i + 1 ELSE n_i
             /\ reduced_ok' = rok
             /\ MoodAfter(o)
             /\ UNCHANGED <<pc, batch_i>>

\* archive, lines 196-213: after the attempts on one sub-batch: the next
\* sub-batch, the next size, or the batch is settled
ReduceAdvance(rows, rok, o) ==
    LET lastSub == sub_i + ReduceSizes[n_i] >= Len(SecBatch)
    IN  IF lastSub /\ (rok \/ n_i = Len(ReduceSizes))
        THEN SecSettle(rows)
        ELSE /\ features_rows' = features_rows \o rows
             /\ stage' = "reduce"
             /\ sub_i' = IF lastSub THEN 0 ELSE sub_i + ReduceSizes[n_i]
             /\ n_i' = IF lastSub THEN n_i + 1 ELSE n_i
             /\ reduced_ok' = rok
             /\ MoodAfter(o)
             /\ UNCHANGED <<pc, batch_i>>

\* archive, lines 197-202: try_audio_features_spotipy(sp, small_batch)
reduce_spotipy ==
    /\ pc = "secondary" /\ variant = "archive" /\ stage = "reduce"
    /\ attempts' = attempts + 1
    /\ \/ /\ MoodAllows("ok")
          /\ Logged(ReduceSizes[n_i], SmallBatch, "ok")
          /\ \E nulls \in NullChoices(SmallBatch) :
               ReduceAdvance(Without(SmallBatch, nulls), TRUE, "ok")
       \/ /\ MoodAllows("fail")
          /\ \E err \in Failures : Logged(ReduceSizes[n_i], SmallBatch, err)
          /\ IF UseDirect(direct_token)
             THEN /\ stage' = "reduce_direct"
                  /\ MoodAfter("fail")
                  /\ UNCHANGED <<pc, batch_i, n_i, sub_i, reduced_ok, features_rows>>
             ELSE ReduceAdvance(<<>>, reduced_ok, "fail")
    /\ Settled
    /\ UNCHANGED <<variant, pureVars, raised, mainVars, primVars, direct_token, genVars>>

\* archive, lines 203-208: try_audio_features_direct(direct_token, small_batch)
reduce_direct ==
    /\ pc = "secondary" /\ variant = "archive" /\ stage = "reduce_direct"
    /\ attempts' = attempts + 1
    /\ \/ /\ MoodAllows("ok")
          /\ Logged(ReduceSizes[n_i], SmallBatch, "ok")
          /\ \E nulls \in NullChoices(SmallBatch) :
               ReduceAdvance(Without(SmallBatch, nulls), TRUE, "ok")
       \/ /\ MoodAllows("fail")
          /\ \E err \in Failures : Logged(ReduceSizes[n_i], SmallBatch, err)
          /\ ReduceAdvance(<<>>, reduced_ok, "fail")
    /\ Settled
    /\ UNCHANGED <<variant, pureVars, raised, mainVars, primVars, direct_token, genVars>>

SecondaryNext ==
    \/ try_audio_features
    \/ try_audio_features_refresh
    \/ get_access_token
    \/ try_audio_features_spotipy
    \/ try_audio_features_direct
    \/ reduce_spotipy
    \/ reduce_direct

\* -------------------------------- fetch_tracks_and_features: join, genres
\* the catalogue: the contributors of a track and the genres of a contributor;
\* a track beyond MaxId has one contributor of its own
ArtistsOf(t) ==
    CASE t > MaxId -> <<t>>
      [] t % 3 = 1 -> <<1, 2>>
      [] t % 3 = 2 -> <<1>>
      [] OTHER     -> <<>>

GenresOf(a) == IF a = 2 THEN <<"jazz", "bop">> ELSE <<>>

\* the rows of one id in df_meta.merge(df_feats, left_on='track_id', right_on='id', how='left')
MatchRows(t, feats) ==
    LET m == SelectSeq(feats, LAMBDA f : f = t)
    IN  [k \in DOMAIN m |->
            [track_id |-> t, attrs |-> "value", primary_artist_genre |-> "unset"]]

\* the rows of meta[lo..hi], in the order of meta
RECURSIVE merge(_, _, _, _)
merge(meta, feats, lo, hi) ==
    IF lo > hi THEN <<>>
    ELSE IF lo = hi
         THEN IF MatchRows(meta[lo], feats) = <<>>
              THEN <<[track_id |-> meta[lo], attrs |-> "null",
                      primary_artist_genre |-> "unset"]>>
              ELSE MatchRows(meta[lo], feats)
         ELSE merge(meta, feats, lo, (lo + hi) \div 2)
              \o merge(meta, feats, (lo + hi) \div 2 + 1, hi)

\* df = df_meta: the table without attribute columns
MetaOnly(meta) ==
    [k \in DOMAIN meta |->
        [track_id |-> meta[k], attrs |-> "absent", primary_artist_genre |-> "unset"]]

JoinedInner(meta, rows) ==
    IF Truthy(rows) # <<>>
    THEN SelectSeq(merge(meta, Truthy(rows), 1, Len(meta)), LAMBDA r : r.attrs = "value")
    ELSE MetaOnly(meta)

JoinedSortedByKey(meta, rows) ==
    IF Truthy(rows) # <<>>
    THEN merge(SortSeq(meta, LAMBDA a, b : a < b), Truthy(rows), 1, Len(meta))
    ELSE MetaOnly(meta)

JoinedAlways(meta, rows) == merge(meta, Truthy(rows), 1, Len(meta))

\* lines 203-210
Joined(meta, rows) ==
    IF Truthy(rows) # <<>> THEN merge(meta, Truthy(rows), 1, Len(meta)) ELSE MetaOnly(meta)

get_primary_genre_first_listed(aids, genres) ==
    IF aids # <<>> /\ Head(aids) \in DOMAIN genres /\ genres[Head(aids)] # <<>>
    THEN genres[Head(aids)][1]
    ELSE "None"

\* get_primary_genre over the list of artist ids of a row
RECURSIVE get_primary_genre(_, _)
get_primary_genre(aids, genres) ==
    IF aids = <<>> THEN "None"
    ELSE IF Head(aids) \in DOMAIN genres /\ genres[Head(aids)] # <<>>
         THEN genres[Head(aids)][1]
         ELSE get_primary_genre(Tail(aids), genres)

\* df['primary_artist_genre'] = df.get('artist_ids', ...).apply(get_primary_genre)
WithGenre(table, genres) ==
    [k \in DOMAIN table |->
        [table[k] EXCEPT !.primary_artist_genre =
            get_primary_genre(ArtistsOf(table[k].track_id), genres)]]

\* the orders list(all_artist_ids) can have
Orders(S) ==
    {f \in [1..Cardinality(S) -> S] : \A i, j \in 1..Cardinality(S) : f[i] = f[j] => i = j}

AllArtistIds(table) ==
    UNION {Range(ArtistsOf(table[k].track_id)) : k \in DOMAIN table}

\* the artist ids of the rows lo..hi, row after row
RECURSIVE ArtistIdsOfRows(_, _, _)
ArtistIdsOfRows(table, lo, hi) ==
    IF lo > hi THEN <<>>
    ELSE IF lo = hi THEN ArtistsOf(table[lo].track_id)
         ELSE ArtistIdsOfRows(table, lo, (lo + hi) \div 2)
              \o ArtistIdsOfRows(table, (lo + hi) \div 2 + 1, hi)

\* list(all_artist_ids): a set is listed in an order of its own; a bulk run
\* lists it in the order the rows name the ids
ArtistLists(table) ==
    IF Bulk
    THEN {fromkeys(ArtistIdsOfRows(table, 1, Len(table)), 1,
                   Len(ArtistIdsOfRows(table, 1, Len(table))))}
    ELSE Orders(AllArtistIds(table))

\* lines 203-217: the join and the collection of the artist ids
JoinAndCollect ==
    /\ pc = "join"
    /\ LET table == Joined(records, features_rows)
       IN  \E order \in ArtistLists(table) :
             /\ artist_list' = order
             /\ batch_i' = 0
             /\ IF order = <<>>
                THEN /\ df' = WithGenre(table, artist_genres)
                     /\ pc' = "done"
                ELSE /\ df' = table
                     /\ pc' = "genres"
    /\ UNCHANGED <<variant, pureVars, raised, mainVars, unique_ids, retry, calls, wait, records,
                   prim_log, secVars, artist_genres, gen_log>>

\* artist_genres[art['id']] = art.get('genres', []) for the artists of a chunk
Learn(genres, chunk) ==
    [a \in DOMAIN genres \cup Range(chunk) |->
        IF a \in Range(chunk) THEN GenresOf(a) ELSE genres[a]]

GenresAdvanceEager(genres) ==
    LET last == batch_i + ARTISTS_CHUNK >= Len(artist_list)
    IN  /\ artist_genres' = genres
        /\ gen_log' = Append(gen_log, batch_i)
        /\ batch_i' = IF last THEN 0 ELSE batch_i + ARTISTS_CHUNK
        /\ df' = WithGenre(df, genres)
        /\ pc' = IF last THEN "done" ELSE "genres"
        /\ raised' = raised

\* after one chunk: the next one, or the genre column is derived (line 233)
GenresAdvance(genres) ==
    LET last == batch_i + ARTISTS_CHUNK >= Len(artist_list)
    IN  /\ artist_genres' = genres
        /\ gen_log' = Append(gen_log, batch_i)
        /\ batch_i' = IF last THEN 0 ELSE batch_i + ARTISTS_CHUNK
        /\ df' = IF last THEN WithGenre(df, genres) ELSE df
        /\ pc' = IF last THEN "done" ELSE "genres"
        /\ raised' = raised

\* lines 218-225: sp.artists(aid_chunk) answers, answers with a null entry, or raises
FetchArtists ==
    /\ pc = "genres"
    /\ \/ GenresAdvance(Learn(artist_genres, chunked(artist_list, ARTISTS_CHUNK, batch_i)))
       \/ GenresAdvance(artist_genres)
       \/ /\ pc' = "raised"
          /\ raised' = "TypeError"
          /\ UNCHANGED <<batch_i, df, artist_genres, gen_log>>
    /\ UNCHANGED <<variant, pureVars, mainVars, unique_ids, retry, calls, wait, records, prim_log,
                   secVars, artist_list>>

GenresNext ==
    \/ JoinAndCollect
    \/ FetchArtists

\* ------------------------------------------------------------------- Init
InitFetch ==
    /\ gen_log = <<>>
    /\ unique_ids = <<>> /\ batch_i = 0 /\ retry = 0 /\ calls = 0 /\ wait = 0
    /\ records = <<>> /\ prim_log = <<>>
    /\ direct_token = FALSE /\ stage = "" /\ n_i = 0 /\ sub_i = 0
    /\ reduced_ok = FALSE /\ attempts = 0
    /\ features_rows = <<>> /\ answered = FALSE
    /\ call_log = <<>> /\ asked = {} /\ last_err = "" /\ sec_log = <<>>
    /\ df = <<>> /\ artist_list = <<>>
    /\ raised = ""

\* no call of the two pure functions on their own
\* a cell of a float array: NaN, or a number
NaN == [nan |-> TRUE, val |-> 0]

Number(v) == [nan |-> FALSE, val |-> v]

NoMetrics ==
    [mean |-> [nan |-> TRUE, sum |-> 0, n |-> 1], min |-> NaN, max |-> NaN,
     bare_count |-> 0, sparse_count |-> 0, moderate_count |-> 0, dense_count |-> 0]

InitRaster ==
    /\ array = <<>> /\ threshold = NaN /\ comparison = "" /\ mask = <<>>
    /\ ndvi = <<>> /\ thresholds = <<>> /\ metrics = NoMetrics

InitPure ==
    /\ artist_ids_str = <<>> /\ genre = "unset"
    /\ input_str = <<>> /\ resolved = <<>>
    /\ InitRaster

Init ==
    /\ variant \in Variants
    /\ pc = "playlists"
    /\ max_tracks \in 0..MaxTracks
    /\ refs_left \in 0..MaxRefs
    /\ artists_left \in 0..MaxArtists
    /\ track_ids = <<>> /\ tids = <<>> /\ has_next = FALSE /\ pages = 0
    /\ page_items = <<>>
    /\ ref_log = <<>> /\ truncated = FALSE
    /\ InitFetch
    /\ artist_genres = <<>>
    /\ InitPure

MainNext ==
    \/ PlaylistFirstPageOk
    \/ PlaylistFirstPageError
    \/ PlaylistNextPage
    \/ PlaylistsDone
    \/ ArtistTopTracks
    \/ ReadFile
    \/ DedupAndCap

Next == MainNext \/ PrimaryNext \/ SecondaryNext \/ GenresNext

Spec == Init /\ [][Next]_vars

\* ------------------------------------------------------------- bulk runs
\* Runs whose id list spans several batches: main has collected the ids
\* 1..n and then the ids 1 and 2 again, and lines 275-285 are about to run.
BulkLens == {TRACKS_CHUNK + 1, FEATURES_CHUNK + 1}

InitBulk ==
    /\ variant \in Variants
    /\ pc = "dedup"
    /\ \E n \in BulkLens :
         /\ track_ids = [k \in 1..(n + 2) |-> IF k <= n THEN k ELSE k - n]
         /\ max_tracks = MAX_TRACKS
    /\ refs_left = 0 /\ artists_left = 0
    /\ tids = <<>> /\ has_next = FALSE /\ pages = 0 /\ page_items = <<>>
    /\ ref_log = <<>> /\ truncated = FALSE
    /\ InitFetch
    /\ artist_genres = <<>>
    /\ InitPure

NextBulk == DedupAndCap \/ PrimaryNext \/ SecondaryNext \/ GenresNext

SpecBulk == InitBulk /\ [][NextBulk]_vars

\* ------------------------------------------- get_primary_genre on its own
\* get_primary_genre applied to one row: the artist ids the row lists and the
\* lookup artist_genres are drawn from bounded sets.
MaxContributors == 3

GenreLists == {<<>>, <<"jazz", "bop">>, <<"rock">>}

Lookups == UNION {[D -> GenreLists] : D \in SUBSET Ids}

Contributors == UNION {[1..n -> Ids] : n \in 0..MaxContributors}

InitGenre ==
    /\ variant \in Variants
    /\ pc = "get_primary_genre"
    /\ max_tracks = MAX_TRACKS /\ refs_left = 0 /\ artists_left = 0
    /\ track_ids = <<>> /\ tids = <<>> /\ has_next = FALSE /\ pages = 0
    /\ page_items = <<>> /\ ref_log = <<>> /\ truncated = FALSE
    /\ InitFetch
    /\ artist_genres \in Lookups
    /\ artist_ids_str \in Contributors
    /\ genre = "unset"
    /\ input_str = <<>> /\ resolved = <<>>
    /\ InitRaster

\* line 233, for one row
ApplyPrimaryGenre ==
    /\ pc = "get_primary_genre"
    /\ genre' = get_primary_genre(artist_ids_str, artist_genres)
    /\ pc' = "done"
    /\ UNCHANGED <<variant, raised, batch_i, mainVars, primVars, secVars, genVars,
                   artist_ids_str, input_str, resolved, rasterVars>>

NextGenre == ApplyPrimaryGenre

SpecGenre == InitGenre /\ [][NextGenre]_vars

\* ------------------------------------------------------ extract_playlist_id
\* A string is a sequence of characters.  "p", "s" and "a" are alphanumeric;
\* the word playlist of the pattern is written "p" and the word spotify "s",
\* so that 'playlist/' is <<"p", "/">> and 'spotify:playlist:' is
\* <<"s", ":", "p", ":">>; " " is whitespace.
MaxLen == 5

Alnum == {"p", "s", "a"}

Chars == Alnum \cup {"/", ":", " "}

Strings == UNION {[1..n -> Chars] : n \in 0..MaxLen}

PLAYLIST_SLASH == <<"p", "/">>

SPOTIFY_PLAYLIST == <<"s", ":", "p", ":">>

lstrip(s) ==
    IF \A k \in DOMAIN s : s[k] = " " THEN <<>>
    ELSE SubSeq(s, CHOOSE i \in DOMAIN s : s[i] # " " /\ \A k \in 1..(i - 1) : s[k] = " ",
                Len(s))

\* input_str.strip()
strip(s) ==
    IF \A k \in DOMAIN s : s[k] = " " THEN <<>>
    ELSE SubSeq(s, CHOOSE i \in DOMAIN s : s[i] # " " /\ \A k \in 1..(i - 1) : s[k] = " ",
                CHOOSE j \in DOMAIN s : s[j] # " " /\ \A k \in (j + 1)..Len(s) : s[k] = " ")

\* the literal lit is in s at position i
StartsAt(s, i, lit) == i + Len(lit) - 1 <= Len(s) /\ SubSeq(s, i, i + Len(lit) - 1) = lit

RECURSIVE AlnumRunToSpace(_, _)
AlnumRunToSpace(s, i) ==
    IF i > Len(s) \/ s[i] = " " THEN <<>> ELSE <<s[i]>> \o AlnumRunToSpace(s, i + 1)

\* ([A-Za-z0-9]+) tried at position i: the longest run, <<>> when it fails
RECURSIVE AlnumRun(_, _)
AlnumRun(s, i) ==
    IF i > Len(s) \/ s[i] \notin Alnum THEN <<>> ELSE <<s[i]>> \o AlnumRun(s, i + 1)

\* re.search(r'(?:playlist/|spotify:playlist:)([A-Za-z0-9]+)', s) from position
\* i on: group 1 of the leftmost match, <<>> when there is no match
RECURSIVE re_search(_, _)
re_search(s, i) ==
    IF i > Len(s) THEN <<>>
    ELSE LET g == IF StartsAt(s, i, PLAYLIST_SLASH)
                  THEN AlnumRun(s, i + Len(PLAYLIST_SLASH))
                  ELSE IF StartsAt(s, i, SPOTIFY_PLAYLIST)
                       THEN AlnumRun(s, i + Len(SPOTIFY_PLAYLIST))
                       ELSE <<>>
         IN  IF g # <<>> THEN g ELSE re_search(s, i + 1)

\* lines 44-54; both branches after the search return the stripped input
extract_playlist_id(s) ==
    IF s = <<>> THEN <<>>
    ELSE IF re_search(strip(s), 1) # <<>> THEN re_search(strip(s), 1)
         ELSE strip(s)

\* a reference string is resolved, and the value returned is resolved again
InitResolve ==
    /\ variant \in Variants
    /\ pc = "extract_playlist_id"
    /\ max_tracks = MAX_TRACKS /\ refs_left = 0 /\ artists_left = 0
    /\ track_ids = <<>> /\ tids = <<>> /\ has_next = FALSE /\ pages = 0
    /\ page_items = <<>> /\ ref_log = <<>> /\ truncated = FALSE
    /\ InitFetch
    /\ artist_genres = <<>>
    /\ artist_ids_str = <<>> /\ genre = "unset"
    /\ input_str \in Strings
    /\ resolved = <<>>
    /\ InitRaster

Resolve ==
    /\ pc = "extract_playlist_id"
    /\ resolved' = Append(resolved,
          extract_playlist_id(IF resolved = <<>> THEN input_str
                              ELSE resolved[Len(resolved)]))
    /\ pc' = IF Len(resolved) >= 1 THEN "done" ELSE pc
    /\ UNCHANGED <<variant, raised, batch_i, mainVars, primVars, secVars, genVars,
                   artist_ids_str, genre, input_str, rasterVars>>

NextResolve == Resolve

SpecResolve == InitResolve /\ [][NextResolve]_vars

\* ------------------------------------------------------------ mask_threshold
\* verdemetria/processing.py.  An array is the sequence of its cells; the
\* numbers are the multiples of 1e-8 (the absolute tolerance of np.isclose)
\* from -MaxVal to MaxVal, so that the arithmetic is exact.
MaxCells == 2

MaxVal == 2

Cells == {NaN} \cup {Number(v) : v \in -MaxVal..MaxVal}

Arrays(C) == UNION {[1..n -> C] : n \in 0..MaxCells}

\* the defaults of np.isclose: atol = 1e-8 (one unit), rtol = 1e-5 (1 / RTOL_INV)
ATOL == 1

RTOL_INV == 100000

Abs(x) == IF x < 0 THEN -x ELSE x

\* np.isclose(a, b): |a - b| <= atol + rtol * |b|, False when one is NaN
isclose(a, b) ==
    /\ ~a.nan /\ ~b.nan
    /\ RTOL_INV * Abs(a.val - b.val) <= RTOL_INV * ATOL + Abs(b.val)

\* the comparison operators of floats: False when an operand is NaN
Greater(a, b) == ~a.nan /\ ~b.nan /\ a.val > b.val

Less(a, b) == ~a.nan /\ ~b.nan /\ a.val < b.val

GreaterEqual(a, b) == ~a.nan /\ ~b.nan /\ a.val >= b.val

LessEqual(a, b) == ~a.nan /\ ~b.nan /\ a.val <= b.val

Comparisons == {"greater", "less", "equal", "greater_equal", "less_equal"}

CompareNonStrict(cmp, a, b) ==
    CASE cmp = "greater"       -> GreaterEqual(a, b)
      [] cmp = "less"          -> Less(a, b)
      [] cmp = "equal"         -> isclose(a, b)
      [] cmp = "greater_equal" -> GreaterEqual(a, b)
      [] cmp = "less_equal"    -> LessEqual(a, b)

\* lines 124-133: the branch of the operator name, for one cell
Compare(cmp, a, b) ==
    CASE cmp = "greater"       -> Greater(a, b)
      [] cmp = "less"          -> Less(a, b)
      [] cmp = "equal"         -> isclose(a, b)
      [] cmp = "greater_equal" -> GreaterEqual(a, b)
      [] cmp = "less_equal"    -> LessEqual(a, b)

\* lines 122-140, for an accepted operator name
mask_threshold(arr, thr, cmp) ==
    [k \in DOMAIN arr |-> Compare(cmp, arr[k], thr) /\ ~arr[k].nan]

InitMask ==
    /\ variant = "current"
    /\ pc = "mask_threshold"
    /\ max_tracks = MAX_TRACKS /\ refs_left = 0 /\ artists_left = 0
    /\ track_ids = <<>> /\ tids = <<>> /\ has_next = FALSE /\ pages = 0
    /\ page_items = <<>> /\ ref_log = <<>> /\ truncated = FALSE
    /\ InitFetch
    /\ artist_genres = <<>>
    /\ artist_ids_str = <<>> /\ genre = "unset"
    /\ input_str = <<>> /\ resolved = <<>>
    /\ array \in Arrays(Cells)
    /\ threshold \in Cells
    /\ comparison \in Comparisons \cup {"invalid"}
    /\ mask = <<>>
    /\ ndvi = <<>> /\ thresholds = <<>> /\ metrics = NoMetrics

\* lines 122-140: the mask, or ValueError for another operator name
MaskThreshold ==
    /\ pc = "mask_threshold"
    /\ IF comparison \in Comparisons
       THEN /\ mask' = mask_threshold(array, threshold, comparison)
            /\ pc' = "done"
            /\ raised' = raised
       ELSE /\ mask' = mask
            /\ pc' = "raised"
            /\ raised' = "ValueError"
    /\ UNCHANGED <<variant, batch_i, mainVars, primVars, secVars, genVars,
                   artist_ids_str, genre, input_str, resolved,
                   array, threshold, comparison, ndvi, thresholds, metrics>>

NextMask == MaskThreshold

SpecMask == InitMask /\ [][NextMask]_vars

\* ---------------------------------------------- calculate_vegetation_metrics
\* The NDVI values and the thresholds are tenths: 0, 0.1, ..., MaxNdvi / 10.
MaxNdvi == 7

\* lines 165-169: the default thresholds, in tenths
BARE == 2

SPARSE == 4

MODERATE == 6

NdviCells == {NaN} \cup {Number(v) : v \in 0..MaxNdvi}

\* thresholds: None, or a dict with the three keys
ThresholdChoices == {<<>>} \cup [1..3 -> {BARE, SPARSE, MODERATE}]

\* line 171: ndvi[~np.isnan(ndvi)]
ValidCells(a) == SelectSeq(a, LAMBDA c : ~c.nan)

RECURSIVE SumOf(_)
SumOf(a) == IF a = <<>> THEN 0 ELSE Head(a).val + SumOf(Tail(a))

\* int(np.sum(b)) of a boolean array
CountTrue(b) == Cardinality({k \in DOMAIN b : b[k]})

MinOf(a) == CHOOSE c \in Range(a) : \A d \in Range(a) : c.val <= d.val

MaxOf(a) == CHOOSE c \in Range(a) : \A d \in Range(a) : c.val >= d.val

DenseFromSparse(a, t) ==
    CountTrue([k \in DOMAIN a |-> GreaterEqual(a[k], Number(t[2])) /\ ~a[k].nan])

\* line 206
DenseCount(a, t) ==
    CountTrue([k \in DOMAIN a |-> GreaterEqual(a[k], Number(t[3])) /\ ~a[k].nan])

\* lines 164-208; the standard deviation is left out
calculate_vegetation_metrics(a, thr) ==
    LET t == IF thr = <<>> THEN <<BARE, SPARSE, MODERATE>> ELSE thr
        valid_ndvi == ValidCells(a)
    IN  IF Len(valid_ndvi) = 0
        THEN NoMetrics
        ELSE [mean |-> [nan |-> FALSE, sum |-> SumOf(valid_ndvi), n |-> Len(valid_ndvi)],
              min |-> MinOf(valid_ndvi),
              max |-> MaxOf(valid_ndvi),
              bare_count |->
                  CountTrue([k \in DOMAIN a |-> Less(a[k], Number(t[1])) /\ ~a[k].nan]),
              sparse_count |->
                  CountTrue([k \in DOMAIN a |-> /\ GreaterEqual(a[k], Number(t[1]))
                                                /\ Less(a[k], Number(t[2]))
                                                /\ ~a[k].nan]),
              moderate_count |->
                  CountTrue([k \in DOMAIN a |-> /\ GreaterEqual(a[k], Number(t[2]))
                                                /\ Less(a[k], Number(t[3]))
                                                /\ ~a[k].nan]),
              dense_count |-> DenseCount(a, t)]

InitMetrics ==
    /\ variant = "current"
    /\ pc = "calculate_vegetation_metrics"
    /\ max_tracks = MAX_TRACKS /\ refs_left = 0 /\ artists_left = 0
    /\ track_ids = <<>> /\ tids = <<>> /\ has_next = FALSE /\ pages = 0
    /\ page_items = <<>> /\ ref_log = <<>> /\ truncated = FALSE
    /\ InitFetch
    /\ artist_genres = <<>>
    /\ artist_ids_str = <<>> /\ genre = "unset"
    /\ input_str = <<>> /\ resolved = <<>>
    /\ array = <<>> /\ threshold = NaN /\ comparison = "" /\ mask = <<>>
    /\ ndvi \in Arrays(NdviCells)
    /\ thresholds \in ThresholdChoices
    /\ metrics = NoMetrics

CalculateVegetationMetrics ==
    /\ pc = "calculate_vegetation_metrics"
    /\ metrics' = calculate_vegetation_metrics(ndvi, thresholds)
    /\ pc' = "done"
    /\ UNCHANGED <<variant, raised, batch_i, mainVars, primVars, secVars, genVars,
                   artist_ids_str, genre, input_str, resolved,
                   array, threshold, comparison, mask, ndvi, thresholds>>

NextMetrics == CalculateVegetationMetrics

SpecMetrics == InitMetrics /\ [][NextMetrics]_vars

\* ------------------------------------------------------------ well-formedness
Final == {"done", "raised", "no_ids"}

TypeOK ==
    /\ variant \in Variants
    /\ pc \in {"playlists", "paginate", "artists", "dedup", "fetch", "primary", "token",
               "secondary", "join", "genres", "get_primary_genre", "extract_playlist_id",
               "mask_threshold", "calculate_vegetation_metrics"}
             \cup Final
    /\ raised \in {"", "Exception", "TypeError", "ValueError"} \cup FirstPageErrors
    /\ (pc = "raised") = (raised # "")
    /\ retry \in 0..RetryCap /\ calls \in 0..RetryCap /\ wait \in 0..MAX_WAIT
    /\ asked \subseteq Range(records)
    /\ comparison \in Comparisons \cup {"", "invalid"}
    /\ Len(array) <= MaxCells /\ Len(ndvi) <= MaxCells
    /\ mask \in {<<>>, mask_threshold(array, threshold, "greater"),
                 mask_threshold(array, threshold, "less"),
                 mask_threshold(array, threshold, "equal"),
                 mask_threshold(array, threshold, "greater_equal"),
                 mask_threshold(array, threshold, "less_equal")}
    /\ Len(thresholds) \in {0, 3}
    /\ gen_log \in Seq(Nat) /\ Len(gen_log) * ARTISTS_CHUNK < Len(artist_list) + ARTISTS_CHUNK
    /\ attempts \in Nat /\ batch_i \in Nat /\ sub_i \in Nat
    /\ n_i \in 0..Len(ReduceSizes)
    /\ stage \in {"", "full", "refresh", "singles", "single_refresh", "direct", "reduce",
                  "reduce_direct"}
    /\ last_err \in {""} \cup Failures
    /\ attempts = Len(call_log)
    /\ Len(resolved) <= 2

\* ================================================================== claims
Ceil(a, b) == (a + b - 1) \div b

\* the sub-batches of a batch of n ids over the sizes k..5 of the reduce pass
RECURSIVE SubBatches(_, _)
SubBatches(n, k) ==
    IF k > Len(ReduceSizes) THEN 0 ELSE Ceil(n, ReduceSizes[k]) + SubBatches(n, k + 1)

\* the batch the counter attempts is about: before the first call of a batch
\* it still holds the count of the batch before
AttemptsBatch ==
    IF pc = "secondary" /\ stage = "full" /\ batch_i > 0
    THEN chunked(records, FEATURES_CHUNK, batch_i - FEATURES_CHUNK)
    ELSE SecBatch

AttemptBound(v, n) == IF v = "current" THEN 2 + n ELSE 2 + 2 * SubBatches(n, 1)

InSecondary == pc \in {"secondary", "join"}

\* C1 (as stated): the secondary step finishes every batch after at most
\* 2 + 5 = 7 calls of the secondary endpoint and never raises.
C1_AtMostSevenAttempts == InSecondary => attempts <= 2 + 5 /\ raised = ""

\* C1 (amended): a batch of n ids is finished after at most 2 + n calls in the
\* current variant (the whole batch, one retry with a fresh client, one call
\* per id) and after at most 2 + 2 * (sub-batches of all five sizes) calls in
\* the archive variant (client and direct call for the batch and for every
\* sub-batch); the step never raises.
C1_AttemptsBounded ==
    InSecondary => attempts <= AttemptBound(variant, Len(AttemptsBatch)) /\ raised = ""

C1_Witness ==
    /\ pc = "join" /\ variant = "current"
    /\ Len(SecBatch) > 5
    /\ attempts = 2 + Len(SecBatch)

PrimaryBatch(k) == chunked(unique_ids, TRACKS_CHUNK, prim_log[k].at)

TableIds == {df[k].track_id : k \in DOMAIN df}

PrimaryOver == pc \notin {"playlists", "paginate", "artists", "dedup", "fetch", "primary",
                          "no_ids"}

\* C2: in the current variant a batch whose every sp.tracks call fails is
\* called at most max_retries = 5 times and then contributes no record; the
\* batches after it are still fetched, their records are in the result, and
\* the failure does not leave the function.
C2_SkippedBatchOnly ==
    variant = "current" =>
        /\ pc = "primary" => calls < max_retries
        /\ pc = "raised" => raised = "TypeError"
        /\ \A k \in DOMAIN prim_log :
             /\ prim_log[k].at = (k - 1) * TRACKS_CHUNK
             /\ prim_log[k].skipped => Range(PrimaryBatch(k)) \cap Range(records) = {}
             /\ ~prim_log[k].skipped =>
                  /\ Range(prim_log[k].got) \subseteq Range(records)
                  /\ pc = "done" => Range(prim_log[k].got) \subseteq TableIds
        /\ PrimaryOver /\ unique_ids # <<>> =>
             Len(prim_log) = Ceil(Len(unique_ids), TRACKS_CHUNK)

C2_Witness ==
    /\ pc = "done" /\ variant = "current"
    /\ Len(prim_log) = 2
    /\ prim_log[1].skipped /\ ~prim_log[2].skipped
    /\ TableIds = {TRACKS_CHUNK + 1}

\* C3 (as stated): in both variants the retry loop of a batch has a ceiling:
\* no batch is called more than max_retries = 5 times.
C3_RetryCeiling == pc = "primary" => calls < max_retries

Got == UNION {Range(prim_log[k].got) : k \in DOMAIN prim_log}

RowsOf(t) == {k \in DOMAIN df : df[k].track_id = t}

\* C4: the table returned has exactly one row for each id the primary endpoint
\* returned a record for, and no row for any other id.
C4_OneRowPerRecord ==
    pc = "done" =>
        \A t \in Range(unique_ids) \cup TableIds :
            Cardinality(RowsOf(t)) = IF t \in Got THEN 1 ELSE 0

C4_Witness ==
    /\ pc = "done"
    /\ unique_ids = <<1, 2, MaxId>>
    /\ Got = {1, MaxId}
    /\ Len(df) = 2 /\ df[1].track_id = 1 /\ df[2].track_id = MaxId

\* C5: when no attribute row was collected in the whole run, the table has
\* one row per primary record, in their order, without attribute columns and
\* with the derived genre column.
C5_MetadataOnly ==
    pc = "done" /\ Truthy(features_rows) = <<>> =>
        /\ Len(df) = Len(records)
        /\ \A k \in DOMAIN df :
             /\ df[k].track_id = records[k]
             /\ df[k].attrs = "absent"
             /\ df[k].primary_artist_genre # "unset"

C5_Witness ==
    /\ pc = "done"
    /\ Len(records) >= 2
    /\ attempts > 0
    /\ Truthy(features_rows) = <<>>
    /\ \E k \in DOMAIN df : df[k].primary_artist_genre = "jazz"

NoDuplicate(s) == \A i, j \in DOMAIN s : s[i] = s[j] => i = j

FirstIndex(s, x) == CHOOSE k \in DOMAIN s : s[k] = x /\ \A j \in 1..(k - 1) : s[j] # x

InFirstSeenOrder(s, raw) ==
    \A i \in 1..(Len(s) - 1) : FirstIndex(raw, s[i]) < FirstIndex(raw, s[i + 1])

BatchesOf(t) ==
    {k \in DOMAIN prim_log :
        \E j \in (prim_log[k].at + 1)..Min(prim_log[k].at + TRACKS_CHUNK, Len(unique_ids)) :
            unique_ids[j] = t}

\* C6: the list main passes on holds every collected id once, in the order of
\* first appearance, and each of its ids is in exactly one primary batch.
C6_Step ==
    /\ pc = "dedup" =>
         /\ NoDuplicate(track_ids')
         /\ Range(track_ids') \subseteq Range(track_ids) \ {0}
         /\ InFirstSeenOrder(track_ids', track_ids)
         /\ ~truncated' => Range(track_ids') = Range(track_ids) \ {0}
    /\ pc = "primary" /\ pc' # "primary" =>
         \A t \in Range(track_ids') : Cardinality(BatchesOf(t)') = 1

C6_DedupOnce == [][C6_Step]_vars

C6_Witness ==
    /\ pc = "join"
    /\ Len(unique_ids) = FEATURES_CHUNK + 1
    /\ Len(prim_log) = 3
    /\ ~truncated

\* the ids of raw in the order of their first appearance
FirstPositions(raw) == {k \in DOMAIN raw : raw[k] # 0 /\ \A j \in 1..(k - 1) : raw[j] # raw[k]}

Nth(S, i) == CHOOSE k \in S : Cardinality({j \in S : j <= k}) = i

FirstSeen(raw) ==
    [i \in 1..Cardinality(FirstPositions(raw)) |-> raw[Nth(FirstPositions(raw), i)]]

\* C7: with max_tracks >= 0 the table has at most max_tracks rows, and a
\* deduplicated list longer than max_tracks is cut to its first max_tracks ids.
C7_Step ==
    /\ pc = "dedup" /\ Len(FirstSeen(track_ids)) > max_tracks =>
         track_ids' = SubSeq(FirstSeen(track_ids), 1, max_tracks)
    /\ pc' = "done" => Len(df') <= max_tracks'

C7_Cap == [][C7_Step]_vars

C7_Witness ==
    /\ pc = "done"
    /\ truncated
    /\ max_tracks = 2
    /\ Len(df) = max_tracks

\* C8 (as stated): an error of the first page request other than a 404 makes
\* get_playlist_track_ids return an empty list; it is not raised.
C8_FirstPageErrorNotRaised ==
    /\ raised \notin FirstPageErrors \ {"404"}
    /\ \A k \in DOMAIN ref_log : ref_log[k].st \in FirstPageErrors => ref_log[k].ids = <<>>

RECURSIVE Flatten(_)
Flatten(log) == IF log = <<>> THEN <<>> ELSE Head(log).ids \o Flatten(Tail(log))

\* C9: a 404 on the first page of a reference gives an empty list for that
\* reference and is not raised; the ids of the references before it are kept
\* and the references after it are processed.
C9_Step ==
    /\ raised' # "404"
    /\ Len(ref_log') = Len(ref_log) + 1 /\ ref_log'[Len(ref_log')].st = "404" =>
         /\ ref_log'[Len(ref_log')].ids = <<>>
         /\ track_ids' = track_ids
         /\ refs_left' = refs_left - 1
         /\ pc' = "playlists"
    /\ pc' \in {"playlists", "paginate"} => track_ids' = Flatten(ref_log')

C9_NotFoundIsLocal == [][C9_Step]_vars

C9_Witness ==
    /\ pc = "playlists"
    /\ Len(ref_log) = 3
    /\ ref_log[2].st = "404"
    /\ ref_log[1].ids # <<>> /\ ref_log[3].ids # <<>>
    /\ track_ids = ref_log[1].ids \o ref_log[3].ids

\* C10 (as stated): for every limit >= 0 get_playlist_track_ids returns at most
\* limit ids, and it requests a further page only while the last page reported
\* a next page and fewer than limit ids are accumulated.
C10_AtMostLimit ==
    /\ \A k \in DOMAIN ref_log : Len(ref_log[k].ids) <= max_tracks
    /\ pc = "paginate" => has_next /\ Len(tids) < max_tracks

\* C11: when the request of page k > 1 fails, get_playlist_track_ids returns
\* the ids of the pages 1..k-1 in page order: nothing is raised, the ids
\* reach main's list, and the next reference is processed.
C11_Step ==
    /\ pc = "paginate" => tids = Truthy(page_items) /\ pages >= 1
    /\ Len(ref_log') = Len(ref_log) + 1 /\ ref_log'[Len(ref_log')].st = "next_failed" =>
         /\ pc = "paginate"
         /\ ref_log'[Len(ref_log')].ids = Truthy(page_items)
         /\ track_ids' = track_ids \o Truthy(page_items)
         /\ raised' = ""
         /\ pc' = "playlists"
         /\ refs_left' = refs_left - 1

C11_PartialPagesKept == [][C11_Step]_vars

C11_Witness ==
    /\ pc = "playlists"
    /\ Len(ref_log) = 2
    /\ ref_log[1].st = "next_failed" /\ ref_log[1].ids = <<MaxId, 1>>
    /\ ref_log[2].st = "ok" /\ ref_log[2].ids # <<>>
    /\ track_ids = ref_log[1].ids \o ref_log[2].ids

\* C12 (as stated): a failure of the search-by-name call or of the top-tracks
\* call for an artist name does not abort the run: the exception does not
\* leave main, and the run goes on with the remaining references.
C12_ArtistFailureDoesNotAbort == ~(pc = "raised" /\ raised = "Exception")

\* the positions of the listed contributors that the lookup knows with a
\* non-empty genre list
Hits(aids, genres) ==
    {k \in DOMAIN aids : aids[k] \in DOMAIN genres /\ genres[aids[k]] # <<>>}

\* C13: the derived genre is the first label of the first listed contributor
\* whose fetched genre list is non-empty, and no value when there is none.
C13_FirstNonEmptyGenre ==
    genre # "unset" =>
        IF Hits(artist_ids_str, artist_genres) = {}
        THEN genre = "None"
        ELSE \E k \in Hits(artist_ids_str, artist_genres) :
                /\ \A j \in Hits(artist_ids_str, artist_genres) : k <= j
                /\ genre = artist_genres[artist_ids_str[k]][1]

C13_Witness ==
    /\ pc = "done"
    /\ artist_ids_str = <<1, 2>>
    /\ DOMAIN artist_genres = {1, 2}
    /\ artist_genres[1] = <<>> /\ artist_genres[2] = <<"jazz", "bop">>
    /\ genre = "jazz"

\* C14 (as stated): a failure while obtaining or processing one batch of
\* artist ids, a null entry in the response included, is confined to that
\* batch: nothing is raised out of fetch_tracks_and_features.
C14_GenreFailureConfined == ~(pc = "raised" /\ raised = "TypeError")

\* the positions of s where one of the two literals is followed by an
\* alphanumeric character, and the position right after the literal
IdStart(s, i) ==
    IF StartsAt(s, i, PLAYLIST_SLASH) THEN i + Len(PLAYLIST_SLASH)
    ELSE IF StartsAt(s, i, SPOTIFY_PLAYLIST) THEN i + Len(SPOTIFY_PLAYLIST)
    ELSE 0

Occurrences(s) ==
    {i \in DOMAIN s : IdStart(s, i) \in DOMAIN s /\ s[IdStart(s, i)] \in Alnum}

\* t is the id at the occurrence i: the alphanumeric run after the literal,
\* up to the next character that is not alphanumeric
IsIdAt(s, i, t) ==
    /\ t # <<>>
    /\ t = SubSeq(s, IdStart(s, i), IdStart(s, i) + Len(t) - 1)
    /\ \A k \in DOMAIN t : t[k] \in Alnum
    /\ IdStart(s, i) + Len(t) \in DOMAIN s => s[IdStart(s, i) + Len(t)] \notin Alnum

\* t is s without its leading and trailing whitespace
IsStripped(s, t) ==
    /\ t # <<>> => t[1] # " " /\ t[Len(t)] # " "
    /\ \E a \in 0..Len(s) :
         /\ a + Len(t) <= Len(s)
         /\ \A k \in DOMAIN t : t[k] = s[a + k]
         /\ \A k \in DOMAIN s : (k <= a \/ k > a + Len(t)) => s[k] = " "

\* C15: for a non-empty input, extract_playlist_id returns the id of the first
\* 'playlist/<id>' or 'spotify:playlist:<id>' in it and, when there is none,
\* the input without its surrounding whitespace.
C15_FirstMatchOrInput ==
    resolved # <<>> /\ input_str # <<>> =>
        IF Occurrences(input_str) # {}
        THEN \E i \in Occurrences(input_str) :
                /\ \A j \in Occurrences(input_str) : i <= j
                /\ IsIdAt(input_str, i, resolved[1])
        ELSE IsStripped(input_str, resolved[1])

C15_Witness ==
    /\ input_str = <<" ", "p", "/", "p", "/">>
    /\ resolved # <<>> /\ resolved[1] = <<"p">>

\* C16: resolving the value extract_playlist_id returned gives that value again.
C16_Idempotent == Len(resolved) = 2 => resolved[2] = resolved[1]

C16_Witness ==
    /\ input_str = <<"s", ":", "p", ":", "a">>
    /\ resolved = <<(<<"a">>), (<<"a">>)>>

\* C17: a request to the tracks endpoint or to the artists endpoint carries 1
\* to 50 ids, a request to the audio_features endpoint, through the client or
\* direct, 1 to 100 ids.
C17_BatchCeilings ==
    /\ pc = "primary" =>
          Len(chunked(unique_ids, TRACKS_CHUNK, batch_i)) \in 1..50
    /\ pc = "genres" =>
          Len(chunked(artist_list, ARTISTS_CHUNK, batch_i)) \in 1..50
    /\ pc = "secondary" /\ stage \in {"full", "refresh", "direct"} => Len(SecBatch) \in 1..100
    /\ \A k \in DOMAIN call_log : call_log[k].n \in 1..100

C17_Witness ==
    /\ pc = "genres" /\ batch_i = ARTISTS_CHUNK
    /\ Len(artist_list) > ARTISTS_CHUNK
    /\ Len(unique_ids) = FEATURES_CHUNK + 1
    /\ Len(prim_log) = 3
    /\ Len(sec_log) = 2
    /\ \E k \in DOMAIN call_log : call_log[k].n = 1

\* the call just issued, and the retries of a whole batch in the log
LastCall == call_log'[Len(call_log')]

FullRetries == {k \in DOMAIN call_log : call_log[k].stage \in {"refresh", "direct"}}

\* C18 (as stated): a 403 on the call for the whole batch is followed by one
\* retry of the same whole batch with a fresh credential; an answered retry
\* settles the batch with its attributes, a failed one leads to the attempts
\* at reduced size, and a batch has no second retry.
C18_Step ==
    /\ pc = "secondary" /\ stage = "full" /\ last_err' = "403" =>
          /\ stage' \in {"refresh", "direct"}
          /\ pc' = "secondary" /\ batch_i' = batch_i
    /\ pc = "secondary" /\ stage \in {"refresh", "direct"} =>
          /\ Len(call_log') = 2
          /\ LastCall.n = Len(SecBatch)
          /\ LastCall.ok =>
                /\ Settles
                /\ Len(features_rows') >= Len(features_rows)
                /\ Range(features_rows') \ Range(features_rows) \subseteq Range(SecBatch) \cup {0}
          /\ ~LastCall.ok =>
                /\ stage' \in {"singles", "reduce"}
                /\ pc' = "secondary" /\ batch_i' = batch_i
                /\ features_rows' = features_rows
    /\ Cardinality(FullRetries') <= 1
    /\ \A k \in DOMAIN call_log' : call_log'[k].stage # "single_refresh"

C18_RefreshOnce == [][C18_Step]_vars

\* the calls at reduced size in the log, and the position of a size in the
\* fixed order
ReducedCalls ==
    SelectSeq(call_log,
              LAMBDA e : e.stage \in {"reduce", "reduce_direct", "singles", "single_refresh"})

SizeIndex(n) == CHOOSE j \in DOMAIN ReduceSizes : ReduceSizes[j] = n

\* the log is that of a batch that is settled
LogComplete == call_log # <<>> /\ (pc = "join" \/ (pc = "secondary" /\ stage = "full"))

ClientCallsAt(n) ==
    Len(SelectSeq(call_log, LAMBDA e : e.stage \in {"reduce", "singles"} /\ e.size = n))

\* C19 (as stated): after the call on the whole batch has failed, the batch is
\* re-issued at the sizes 50, 20, 10, 5, 1 in this order, never at a larger
\* size after a smaller one; after a sub-batch was answered at size n no
\* other size is used, and the whole batch is attempted at size n: ceil(len/n)
\* sub-batch attempts.
C19_ReduceOrder ==
    /\ ReducedCalls # <<>> => ReducedCalls[1].size = ReduceSizes[1]
    /\ \A k \in 1..(Len(ReducedCalls) - 1) :
          ReducedCalls[k + 1].size # ReducedCalls[k].size =>
              /\ SizeIndex(ReducedCalls[k + 1].size) = SizeIndex(ReducedCalls[k].size) + 1
              /\ \A j \in 1..k : ~ReducedCalls[j].ok
    /\ LogComplete =>
          \A k \in DOMAIN ReducedCalls :
              ReducedCalls[k].ok =>
                  ClientCallsAt(ReducedCalls[k].size)
                      = Ceil(Len(AttemptsBatch), ReducedCalls[k].size)

\* the ids of the k-th secondary batch
SecondaryBatch(k) == chunked(records, FEATURES_CHUNK, sec_log[k].at)

SecondaryOver == pc \in {"join", "genres"} \/ (pc = "done" /\ records # <<>>)

\* C20: a batch for which no call was answered, down to the single ids, adds
\* no attribute row and raises nothing; the batches after it are processed;
\* in the table its ids keep their one row, without attribute values, and the
\* ids whose attributes were collected carry them.
C20_ExhaustedBatchKeepsRows ==
    /\ pc \in {"secondary", "join"} => raised = ""
    /\ SecondaryOver => Len(sec_log) = Ceil(Len(records), FEATURES_CHUNK)
    /\ \A k \in DOMAIN sec_log :
          /\ sec_log[k].at = (k - 1) * FEATURES_CHUNK
          /\ sec_log[k].exhausted =>
                /\ Range(SecondaryBatch(k)) \cap Range(features_rows) = {}
                /\ pc = "done" =>
                      \A t \in Range(SecondaryBatch(k)) :
                          /\ Cardinality(RowsOf(t)) = 1
                          /\ \A r \in RowsOf(t) :
                                df[r].attrs = IF Truthy(features_rows) # <<>> THEN "null"
                                              ELSE "absent"
    /\ pc = "done" =>
          \A r \in DOMAIN df :
              df[r].track_id \in Range(features_rows) => df[r].attrs = "value"

C20_Witness ==
    /\ pc = "done"
    /\ Len(sec_log) = 2
    /\ sec_log[1].exhausted /\ ~sec_log[2].exhausted
    /\ Len(df) = FEATURES_CHUNK + 1
    /\ df[1].attrs = "null" /\ df[FEATURES_CHUNK].attrs = "null"
    /\ df[FEATURES_CHUNK + 1].attrs = "value"

DirectStages == {"direct", "reduce_direct"}

ClientStages == {"full", "reduce"}

\* C21: in the archive variant a direct request is issued only with a token
\* and right after the client call for the same ids has failed; a failed
\* direct request adds no attribute row and is followed by no second direct
\* request for these ids.
C21_Step ==
    /\ \A k \in DOMAIN call_log' :
          call_log'[k].stage \in DirectStages =>
              /\ variant = "archive" /\ direct_token
              /\ k > 1
              /\ call_log'[k - 1].stage \in ClientStages
              /\ ~call_log'[k - 1].ok
              /\ call_log'[k - 1].at = call_log'[k].at
              /\ call_log'[k - 1].n = call_log'[k].n
              /\ call_log'[k - 1].size = call_log'[k].size
    /\ pc = "secondary" /\ stage \in DirectStages /\ ~LastCall.ok =>
          /\ features_rows' = features_rows
          /\ stage' \notin DirectStages

C21_DirectOnlyAfterFailure == [][C21_Step]_vars

C21_Witness ==
    /\ variant = "archive" /\ direct_token
    /\ pc = "secondary" /\ stage = "reduce" /\ n_i = 2
    /\ Len(call_log) = 4
    /\ call_log[2].stage = "direct" /\ call_log[4].stage = "reduce_direct"
    /\ features_rows = <<>>

\* C22: the delay slept after the k-th consecutive failure of a primary batch
\* is min(60, 2^k); within a batch the delays never decrease and never exceed
\* 60; the failure that makes the loop give up is followed by no delay.
C22_Step ==
    /\ pc = "primary" /\ retry' = retry + 1 =>
          /\ wait' = Min(MAX_WAIT, 2 ^ (retry + 1))
          /\ wait' >= wait
          /\ wait' <= MAX_WAIT
    /\ Len(prim_log') > Len(prim_log) /\ prim_log'[Len(prim_log')].skipped =>
          /\ retry + 1 = max_retries
          /\ wait' = 0

C22_BackoffDelays == [][C22_Step]_vars

C22_Witness ==
    /\ variant = "archive" /\ pc = "primary"
    /\ retry = 7 /\ wait = MAX_WAIT

\* C23: the retry counter of the primary fetch belongs to one batch: it counts
\* the failures of the current batch only, so the first delay of every batch
\* is the minimum one and a batch is given up only after max_retries failed
\* attempts of its own.
C23_Step ==
    /\ pc = "primary" => retry = calls
    /\ Len(prim_log') > Len(prim_log) => retry' = 0
    /\ pc = "primary" /\ calls' = 1 => wait' = Backoff(1)
    /\ Len(prim_log') > Len(prim_log) /\ prim_log'[Len(prim_log')].skipped =>
          calls + 1 = max_retries

C23_RetryPerBatch == [][C23_Step]_vars

C23_Witness ==
    /\ pc = "primary" /\ batch_i = TRACKS_CHUNK
    /\ Len(prim_log) = 1 /\ prim_log[1].skipped
    /\ retry = 1 /\ wait = Backoff(1)

GenreDerived == \E k \in DOMAIN df : df[k].primary_artist_genre # "unset"

\* C24: the phases of a run are ordered: the secondary endpoint is called
\* only when every primary batch has settled, the table is joined only when
\* every secondary batch has settled, and the genre column is derived only
\* when every chunk of artists has settled.
C24_PhasesOrdered ==
    /\ (pc \in {"token", "secondary"} \/ call_log # <<>> \/ sec_log # <<>>
            \/ features_rows # <<>>) =>
          /\ Len(prim_log) = Ceil(Len(unique_ids), TRACKS_CHUNK)
          /\ \A k \in DOMAIN prim_log : prim_log[k].at = (k - 1) * TRACKS_CHUNK
    /\ (df # <<>> \/ artist_list # <<>> \/ gen_log # <<>> \/ pc = "genres") =>
          /\ Len(prim_log) = Ceil(Len(unique_ids), TRACKS_CHUNK)
          /\ Len(sec_log) = Ceil(Len(records), FEATURES_CHUNK)
          /\ \A k \in DOMAIN sec_log : sec_log[k].at = (k - 1) * FEATURES_CHUNK
    /\ GenreDerived =>
          /\ Len(gen_log) = Ceil(Len(artist_list), ARTISTS_CHUNK)
          /\ \A k \in DOMAIN gen_log : gen_log[k] = (k - 1) * ARTISTS_CHUNK

C24_Witness ==
    /\ pc = "done" /\ GenreDerived
    /\ Len(prim_log) = 3 /\ Len(sec_log) = 2 /\ Len(gen_log) = 2
    /\ sec_log[1].exhausted /\ ~sec_log[2].exhausted

Collecting == pc \in {"playlists", "paginate", "artists"}

IsPrefix(s, t) == Len(s) <= Len(t) /\ SubSeq(t, 1, Len(s)) = s

TableOrder(table) == [k \in DOMAIN table |-> table[k].track_id]

\* C25: the rows of the table are in the order in which their ids first
\* appear in the input: references only append to the list of ids, the
\* deduplication keeps the order of first appearance, the list is not
\* touched afterwards, and the records and the rows of the table follow it
\* whatever batches failed and whatever ids have no record.
C25_Step ==
    /\ Collecting => IsPrefix(track_ids, track_ids')
    /\ pc = "dedup" => InFirstSeenOrder(track_ids', track_ids)
    /\ pc \notin {"dedup"} /\ ~Collecting => track_ids' = track_ids
    /\ pc' = "done" /\ pc # "done" =>
          /\ Range(TableOrder(df')) \subseteq Range(track_ids')
          /\ InFirstSeenOrder(TableOrder(df'), track_ids')
    /\ pc \in {"primary", "token", "secondary", "join", "genres"} =>
          /\ Range(records') \subseteq Range(track_ids')
          /\ InFirstSeenOrder(records', track_ids')

C25_RowsInInputOrder == [][C25_Step]_vars

C25_Witness ==
    /\ pc = "done"
    /\ track_ids = <<MaxId, 1, 2>>
    /\ Got = {MaxId, 2}
    /\ TableOrder(df) = <<MaxId, 2>>
    /\ df[1].attrs = "null" /\ df[2].attrs = "value"

\* C27: the secondary endpoint is asked only about ids the primary endpoint
\* returned a record for; when no id of the run has a record, the function
\* returns an empty table and no secondary request, token request or genre
\* request was made.
C27_OnlyRecordedIdsAsked ==
    /\ asked \subseteq Got
    /\ pc = "secondary" => Range(SecBatch) \subseteq Got
    /\ (unique_ids # <<>> /\ records = <<>>
            /\ Len(prim_log) = Ceil(Len(unique_ids), TRACKS_CHUNK)) =>
          /\ pc = "done" /\ df = <<>>
          /\ asked = {} /\ call_log = <<>> /\ sec_log = <<>>
          /\ artist_list = <<>> /\ gen_log = <<>>

C27_Witness ==
    /\ pc = "done"
    /\ Len(unique_ids) = 3 /\ Len(records) = 2
    /\ asked = Range(records) /\ asked = Got
    /\ \E k \in DOMAIN call_log : call_log[k].stage = "singles"

\* C28: whatever calls of the secondary endpoint failed or answered, the
\* attribute rows collected hold at most one row per id, and the table has
\* at most one row per id.
C28_OneAttributeRowPerId ==
    /\ NoDuplicate(Truthy(features_rows))
    /\ \A t \in Range(unique_ids) : Cardinality(RowsOf(t)) <= 1

C28_Witness ==
    /\ variant = "archive" /\ pc = "done"
    /\ Len(records) = 3 /\ Len(Truthy(features_rows)) = 3
    /\ \E k \in DOMAIN call_log : call_log[k].stage = "reduce_direct" /\ call_log[k].ok
    /\ \E k \in DOMAIN call_log : call_log[k].stage = "reduce" /\ call_log[k].ok
    /\ \A k \in DOMAIN df : df[k].attrs = "value"

ReduceStages == {"reduce", "reduce_direct"}

\* the log is that of a settled batch of the archive variant that went
\* through the reduce pass
ReducePassOver == LogComplete /\ \E k \in DOMAIN call_log : call_log[k].stage = "reduce"

\* the positions in df_meta of the ids of the batch of the log
LogPositions == (call_log[1].at + 1)..(call_log[1].at + call_log[1].n)

\* the positions a call of the log was about
PositionsOf(e) == (e.at + 1)..(e.at + e.n)

ReduceEntries == {k \in DOMAIN call_log : call_log[k].stage \in ReduceStages}

AnsweredPositions ==
    UNION {PositionsOf(call_log[k]) : k \in {j \in DOMAIN call_log : call_log[j].ok}}

AttemptedAtOne ==
    UNION {PositionsOf(call_log[k]) : k \in {j \in ReduceEntries : call_log[j].size = 1}}

AnsweredSizes == {call_log[k].size : k \in {j \in ReduceEntries : call_log[j].ok}}

FailedAtAnsweredSize ==
    UNION {PositionsOf(call_log[k]) :
             k \in {j \in ReduceEntries :
                        ~call_log[j].ok /\ call_log[j].size \in AnsweredSizes}}

\* C29 (as stated): after the reduce pass every id of the batch has its
\* attributes collected or was attempted at sub-batch size 1.
C29_EveryIdCollectedOrTriedAlone ==
    ReducePassOver =>
        \A p \in LogPositions :
            records[p] \in Range(features_rows) \/ p \in AttemptedAtOne

\* C29 (amended): after the reduce pass every id of the batch was in an
\* answered request, or was attempted at size 1, or was in a sub-batch that
\* failed at the one size at which a sub-batch of the batch was answered: no
\* smaller size is attempted once a sub-batch was answered.
C29_ReducePassCoverage ==
    ReducePassOver =>
        /\ LogPositions \subseteq
              AnsweredPositions \cup AttemptedAtOne \cup FailedAtAnsweredSize
        /\ Cardinality(AnsweredSizes) <= 1
        /\ \A k \in ReduceEntries :
              \A n \in AnsweredSizes : call_log[k].size >= n

C29_Witness ==
    /\ variant = "archive" /\ pc = "join"
    /\ Len(call_log) = 3
    /\ call_log[1].n = 51
    /\ call_log[2].stage = "reduce" /\ call_log[2].size = 50 /\ ~call_log[2].ok
    /\ call_log[3].stage = "reduce" /\ call_log[3].size = 50 /\ call_log[3].ok
    /\ Len(features_rows) = 1

\* the comparison the operator name stands for, 'equal' being equality
Satisfies(cmp, v, t) ==
    CASE cmp = "greater"       -> v > t
      [] cmp = "less"          -> v < t
      [] cmp = "equal"         -> v = t
      [] cmp = "greater_equal" -> v >= t
      [] cmp = "less_equal"    -> v <= t

\* the same, 'equal' being equality within the tolerance of np.isclose
SatisfiesClose(cmp, v, t) ==
    IF cmp = "equal"
    THEN RTOL_INV * Abs(v - t) <= RTOL_INV * ATOL + Abs(t)
    ELSE Satisfies(cmp, v, t)

\* the mask is returned for the accepted names only, and has the array's shape
MaskOrError ==
    /\ pc = "done" => comparison \in Comparisons /\ DOMAIN mask = DOMAIN array
    /\ pc = "raised" => raised = "ValueError" /\ comparison \notin Comparisons /\ mask = <<>>

\* C26 (as stated): for the five operator names a NaN cell is False in the
\* mask and another cell is True exactly when it satisfies the comparison
\* with the threshold; another operator name raises ValueError.
C26_MaskIsComparison ==
    /\ MaskOrError
    /\ pc = "done" =>
          \A k \in DOMAIN array :
              mask[k] = (/\ ~array[k].nan
                         /\ ~threshold.nan
                         /\ Satisfies(comparison, array[k].val, threshold.val))

\* C26 (amended): the same, with 'equal' True exactly when the cell is within
\* the tolerance of np.isclose of the threshold:
\* |cell - threshold| <= 1e-8 + 1e-5 * |threshold|.
C26_MaskIsComparisonWithTolerance ==
    /\ MaskOrError
    /\ pc = "done" =>
          \A k \in DOMAIN array :
              mask[k] = (/\ ~array[k].nan
                         /\ ~threshold.nan
                         /\ SatisfiesClose(comparison, array[k].val, threshold.val))

C26_Witness ==
    /\ pc = "done" /\ comparison = "equal"
    /\ array = <<Number(1), NaN>> /\ threshold = Number(0)
    /\ mask = <<TRUE, FALSE>>

\* the thresholds in force, and the classes a value falls in
InForce == IF thresholds = <<>> THEN <<BARE, SPARSE, MODERATE>> ELSE thresholds

ClassesOf(v) ==
    {c \in {"bare", "sparse", "moderate", "dense"} :
        CASE c = "bare"     -> v < InForce[1]
          [] c = "sparse"   -> v >= InForce[1] /\ v < InForce[2]
          [] c = "moderate" -> v >= InForce[2] /\ v < InForce[3]
          [] c = "dense"    -> v >= InForce[3]}

CountSum ==
    metrics.bare_count + metrics.sparse_count + metrics.moderate_count + metrics.dense_count

\* C30: with the default thresholds, or thresholds with
\* bare <= sparse <= moderate, every non-NaN pixel is in exactly one class and
\* the four counts add up to the number of non-NaN pixels; for an array
\* without a non-NaN pixel the four counts are 0 and the mean is NaN.
C30_CountsPartition ==
    pc = "done" =>
        /\ InForce[1] <= InForce[2] /\ InForce[2] <= InForce[3] =>
              /\ \A k \in DOMAIN ndvi :
                    ~ndvi[k].nan => Cardinality(ClassesOf(ndvi[k].val)) = 1
              /\ CountSum = Cardinality({k \in DOMAIN ndvi : ~ndvi[k].nan})
              /\ \A c \in {"bare", "sparse", "moderate", "dense"} :
                    metrics[c \o "_count"]
                        = Cardinality({k \in DOMAIN ndvi :
                                          ~ndvi[k].nan /\ c \in ClassesOf(ndvi[k].val)})
        /\ (\A k \in DOMAIN ndvi : ndvi[k].nan) =>
              /\ metrics.bare_count = 0 /\ metrics.sparse_count = 0
              /\ metrics.moderate_count = 0 /\ metrics.dense_count = 0
              /\ metrics.mean.nan

C30_Witness ==
    /\ pc = "done"
    /\ thresholds = <<>>
    /\ ndvi = <<Number(5), NaN>>
    /\ metrics.moderate_count = 1 /\ CountSum = 1
    /\ ~metrics.mean.nan /\ metrics.mean.sum = 5 /\ metrics.mean.n = 1

====
